---------------------------- MODULE Spec2Model ----------------------------
(***************************************************************************)
(* A model of rec/tfile: the whole-file helpers read / write / size, the   *)
(* six Openers built on FileHandle (src/include/tfile/tfile.h), the line   *)
(* reader LineReader::readOne, and the first revision's Handle factories   *)
(* (src/tfile.h).                                                          *)
(*                                                                         *)
(* A byte is a one-character string.  A file system maps a path to         *)
(* [exists, data, denied]; a FILE is [path, mode, pos, eof, st, closes]    *)
(* (released: release() handed it to the caller), and a FILE* is an index  *)
(* into the table of FILEs, 0 being nullptr.                               *)
(* stdio is modelled unbuffered: a byte written is in the file at once.    *)
(***************************************************************************)
EXTENDS Integers, Sequences, FiniteSets, TLC

VARIABLES
    cpp_exceptions, \* the build defines __cpp_exceptions
    files,          \* the file system: path -> [exists, data]
    nl,             \* LineReader: the Newline policy of the reader
    rd,             \* readers: the FILE of the Reader being read
    line,           \* readers: the string readOne or read(string&) fills
    ok,             \* LineReader: what the last readOne returned
    lines,          \* LineReader: the lines collected by the caller's loop
    calls,          \* readers: a record of each readOne or read call
    tr,             \* testableRead: [pc, path, n, s, reader]
    ret,            \* whole-file helpers: the last call and what it returned
    lastWrite,      \* whole-file helpers: the last call that wrote the file
    kind,           \* handles: the handle type the objects are of
    fdtab,          \* handles: the FILEs fopen has returned, by FILE*
    objs,           \* handles: object -> [life, file_]
    crashed         \* handles: the process died of a call on a null FILE*

lineVars == <<nl, rd, line, ok, lines, calls>>
wholeVars == <<ret, lastWrite>>
handleVars == <<kind, fdtab, objs, crashed>>
vars == <<cpp_exceptions, files, nl, rd, line, ok, lines, calls, tr, ret,
          lastWrite, kind, fdtab, objs, crashed>>

---------------------------------------------------------------------------
(* Bounds of the model *)

\* Longest generated input of the line reader
MaxInput == 5

\* Longest file testableRead is run on, and the largest size it is told
MaxContent == 40
MaxSize == 40

\* Longest file the handles write
MaxFileLen == 1

\* Longest byte sequence handed to write(path, ...), and longest file the
\* whole-file helpers start from
MaxData == 2
MaxPrior == 3

---------------------------------------------------------------------------
(* Bytes and sequences *)

CR == "\r"
LF == "\n"
\* The byte '\0'
NUL == "NUL"

Min(a, b) == IF a < b THEN a ELSE b

\* All sequences over S of length at most n
SeqsUpTo(S, n) == UNION {[1..k -> S] : k \in 0..n}

---------------------------------------------------------------------------
(* The C library, as the repository calls it *)

Readable(mode) == mode \in {"r", "r+", "w+", "a+"}
Writable(mode) == mode \in {"r+", "w", "w+", "a", "a+"}

\* A path that names no file, a file of some bytes, and a file the process
\* is not allowed to open
NoData == [exists |-> FALSE, data |-> <<>>, denied |-> FALSE]
Data(bytes) == [exists |-> TRUE, data |-> bytes, denied |-> FALSE]
Denied == [exists |-> TRUE, data |-> <<>>, denied |-> TRUE]

\* fopen(filename, mode): file is nullptr when ok is FALSE.  atEnd is the
\* implementation's choice of the initial read position of an "a+" stream.
Fopen(fs, path, mode, atEnd) ==
    LET old == fs[path]
        fails == old.denied \/ (mode \in {"r", "r+"} /\ ~old.exists)
        data == IF mode \in {"w", "w+"} \/ ~old.exists THEN <<>> ELSE old.data
        pos == IF mode = "a" \/ (mode = "a+" /\ atEnd) THEN Len(data) ELSE 0
    IN  IF fails
        THEN [ok |-> FALSE, fs |-> fs, file |-> [path |-> path, mode |-> mode,
                  pos |-> 0, eof |-> FALSE, st |-> "closed", closes |-> 0,
                  released |-> FALSE]]
        ELSE [ok |-> TRUE,
              fs |-> [fs EXCEPT ![path] = Data(data)],
              file |-> [path |-> path, mode |-> mode, pos |-> pos,
                        eof |-> FALSE, st |-> "open", closes |-> 0,
                        released |-> FALSE]]

\* fread(data, 1, length, fp): the bytes it stores
FreadData(fs, f, length) ==
    LET data == fs[f.path].data
    IN  IF ~Readable(f.mode) \/ f.pos >= Len(data) THEN <<>>
        ELSE SubSeq(data, f.pos + 1, Min(f.pos + length, Len(data)))

\* fread: the FILE after it
FreadFile(fs, f, length) ==
    LET got == Len(FreadData(fs, f, length))
    IN  [f EXCEPT !.pos = @ + got, !.eof = @ \/ (Readable(f.mode) /\ got < length)]

\* fwrite(data, 1, length, fp) that transfers the first n bytes: the file
\* system after it.  An "a" or "a+" stream writes at the end of the file; a
\* position past the end leaves a gap of NUL bytes.
FwriteFs(fs, f, data, n) ==
    LET old == fs[f.path].data
        at == IF f.mode \in {"a", "a+"} THEN Len(old) ELSE f.pos
        gap == [i \in 1..(at - Len(old)) |-> NUL]
        new == SubSeq(old, 1, Min(at, Len(old))) \o gap \o SubSeq(data, 1, n)
                 \o SubSeq(old, at + n + 1, Len(old))
    IN  IF ~Writable(f.mode) \/ n = 0 THEN fs
        ELSE [fs EXCEPT ![f.path] = Data(new)]

\* fwrite: the FILE after it
FwriteFile(fs, f, data, n) ==
    LET at == IF f.mode \in {"a", "a+"} THEN Len(fs[f.path].data) ELSE f.pos
    IN  IF ~Writable(f.mode) \/ n = 0 THEN f ELSE [f EXCEPT !.pos = at + n]

\* fclose(fp)
Fclose(f) == [f EXCEPT !.st = "closed", !.closes = @ + 1]

---------------------------------------------------------------------------
(* Newline policies and LineReader *)

Newlines == {"cr", "cr_lf", "lf", "lf_cr"}

\* The two bytes of the Windows newline in the wrong order
newlineStringSwapped(NL) ==
    CASE NL = "cr" -> <<CR>>
      [] NL = "cr_lf" -> <<LF, CR>>
      [] NL = "lf" -> <<LF>>
      [] NL = "lf_cr" -> <<LF, CR>>

newlineString(NL) ==
    CASE NL = "cr" -> <<CR>>
      [] NL = "cr_lf" -> <<CR, LF>>
      [] NL = "lf" -> <<LF>>
      [] NL = "lf_cr" -> <<LF, CR>>

\* ReaderBase::read(char* data, size_t length) on an open FILE
ReaderBase_read(fs, f, length) ==
    [data |-> FreadData(fs, f, length), file |-> FreadFile(fs, f, length)]

\* An emitPartial that forgets the pending bytes
emitPartialDropped(newline, seen, ln) == ln

\* emitPartial: the part of the newline seen so far becomes content
emitPartial(newline, seen, ln) == ln \o SubSeq(newline, 1, seen)

\* The while (true) loop of LineReader::readOne
RECURSIVE readOneLoop(_, _, _, _, _, _)
readOneLoop(newline, fs, f, seen, empty, ln) ==
    LET r == ReaderBase_read(fs, f, 1)
    IN  IF Len(r.data) = 0
        THEN [ok |-> ~empty, line |-> emitPartial(newline, seen, ln), file |-> r.file]
        ELSE LET ch == r.data[1]
             IN  IF ch = newline[seen + 1]
                 THEN IF seen + 1 >= Len(newline)
                      THEN [ok |-> TRUE, line |-> ln, file |-> r.file]
                      ELSE readOneLoop(newline, fs, r.file, seen + 1, FALSE, ln)
                 ELSE readOneLoop(newline, fs, r.file, 0, FALSE,
                                  emitPartial(newline, seen, ln) \o <<ch>>)

\* A reader that ignores its policy and always splits at "\r\n"
readOneAsWindows(NL, fs, f) ==
    readOneLoop(newlineString("cr_lf"), fs, f, 0, TRUE, <<>>)

\* LineReader<NL, Reader>::readOne(std::string& line)
readOne(NL, fs, f) == readOneLoop(newlineString(NL), fs, f, 0, TRUE, <<>>)

---------------------------------------------------------------------------
(* Open modes *)

Modes == {"read", "readWrite", "write", "truncate", "append", "readAppend"}

\* A Writer that opens the file without emptying it
modeStringNoTruncate(mode) ==
    CASE mode = "read" -> "r"
      [] mode = "readWrite" -> "r+"
      [] mode = "write" -> "r+"
      [] mode = "truncate" -> "w+"
      [] mode = "append" -> "a"
      [] mode = "readAppend" -> "a+"

\* An Appender that opens the file as a Writer does
modeStringAppendAsWrite(mode) ==
    CASE mode = "read" -> "r"
      [] mode = "readWrite" -> "r+"
      [] mode = "write" -> "w"
      [] mode = "truncate" -> "w+"
      [] mode = "append" -> "w"
      [] mode = "readAppend" -> "a+"

\* modeString<MODE>()
modeString(mode) ==
    CASE mode = "read" -> "r"
      [] mode = "readWrite" -> "r+"
      [] mode = "write" -> "w"
      [] mode = "truncate" -> "w+"
      [] mode = "append" -> "a"
      [] mode = "readAppend" -> "a+"

\* Traits<MODE>::Base
Traits(mode) ==
    CASE mode = "read" -> "Read"
      [] mode = "readWrite" -> "ReadWrite"
      [] mode = "write" -> "Write"
      [] mode = "truncate" -> "ReadWrite"
      [] mode = "append" -> "Write"
      [] mode = "readAppend" -> "ReadWrite"

\* The mixins of Read, Write and ReadWrite
Mixins(base) ==
    CASE base = "Read" -> {"ReaderBase"}
      [] base = "Write" -> {"WriterBase"}
      [] base = "ReadWrite" -> {"ReaderBase", "WriterBase"}

\* The first revision's factories: Handle<CAN_READ, CAN_WRITE> and the mode
\* each passes to fopen
Factories ==
    {"reader", "readWriter", "writer", "truncateReadWriter", "appender",
     "readAppender"}

Factory(name) ==
    CASE name = "reader" ->
           [CAN_READ |-> TRUE, CAN_WRITE |-> FALSE, mode |-> "r"]
      [] name = "readWriter" ->
           [CAN_READ |-> TRUE, CAN_WRITE |-> TRUE, mode |-> "r+"]
      [] name = "writer" ->
           [CAN_READ |-> FALSE, CAN_WRITE |-> TRUE, mode |-> "w"]
      [] name = "truncateReadWriter" ->
           [CAN_READ |-> TRUE, CAN_WRITE |-> TRUE, mode |-> "w+"]
      [] name = "appender" ->
           [CAN_READ |-> TRUE, CAN_WRITE |-> TRUE, mode |-> "a"]
      [] name = "readAppender" ->
           [CAN_READ |-> TRUE, CAN_WRITE |-> TRUE, mode |-> "a+"]

\* The open mode a factory is for
FactoryMode(name) ==
    CASE name = "reader" -> "read"
      [] name = "readWriter" -> "readWrite"
      [] name = "writer" -> "write"
      [] name = "truncateReadWriter" -> "truncate"
      [] name = "appender" -> "append"
      [] name = "readAppender" -> "readAppend"

\* The handle types: the six Openers and the six factories' Handles
Kinds ==
    {[cls |-> "Opener", of |-> m] : m \in Modes}
      \cup {[cls |-> "Handle", of |-> f] : f \in Factories}

KindMode(k) == IF k.cls = "Opener" THEN k.of ELSE FactoryMode(k.of)

\* The type has read methods / write methods
KindCanRead(k) ==
    IF k.cls = "Opener" THEN "ReaderBase" \in Mixins(Traits(k.of))
    ELSE Factory(k.of).CAN_READ

KindCanWrite(k) ==
    IF k.cls = "Opener" THEN "WriterBase" \in Mixins(Traits(k.of))
    ELSE Factory(k.of).CAN_WRITE

\* The mode string the type hands to fopen
KindModeString(k) ==
    IF k.cls = "Opener" THEN modeString(k.of) ELSE Factory(k.of).mode

---------------------------------------------------------------------------
(* Whole-file read: testableRead, one step at a time *)

BUFFER_SIZE == 16

\* size_t(-1), what size() returns when the file cannot be opened
SIZE_MAX == -1

NoFILE == [path |-> "", mode |-> "", pos |-> 0, eof |-> FALSE,
           st |-> "closed", closes |-> 0, released |-> FALSE]
NoRead == [pc |-> "idle", path |-> "", n |-> 0, s |-> <<>>, reader |-> NoFILE]
NoCall == [op |-> "none"]

\* The handles' variables where no handle is used
NoHandles ==
    /\ kind = [cls |-> "Opener", of |-> "read"]
    /\ fdtab = <<>>
    /\ objs = <<>>
    /\ crashed = FALSE

\* std::string::resize(n): cut, or padded with '\0'
resize(str, n) ==
    IF n <= Len(str) THEN SubSeq(str, 1, n)
    ELSE str \o [i \in 1..(n - Len(str)) |-> NUL]

\* The buffer after fread stored data at its start
Stored(buf, data) == data \o SubSeq(buf, Len(data) + 1, Len(buf))

\* size(filename): ifstream(filename, ate | binary).tellg()
size(fs, path) ==
    IF fs[path].exists /\ ~fs[path].denied THEN Len(fs[path].data) ELSE SIZE_MAX

\* testableRead, entered with the string s and the value n of size(filename)
trStart(path, str, n) ==
    [pc |-> "start", path |-> path, n |-> n, s |-> str, reader |-> NoFILE]

\* s.resize(size(filename)): a length past max_size() throws (or aborts)
trResize(t) ==
    IF t.n = SIZE_MAX
    THEN [t EXCEPT !.pc = IF cpp_exceptions THEN "length_error" ELSE "abort"]
    ELSE [t EXCEPT !.pc = "resized", !.s = resize(t.s, t.n)]

\* Reader reader(filename)
trOpen(fs, t) ==
    LET o == Fopen(fs, t.path, "r", FALSE)
    IN  IF o.ok THEN [t EXCEPT !.pc = "opened", !.reader = o.file]
        ELSE IF cpp_exceptions THEN [t EXCEPT !.pc = "runtime_error"]
        ELSE [t EXCEPT !.pc = "null_reader"]

\* A first read that forgets to cut the string to the bytes read
trFirstReadNoTrim(fs, t) ==
    LET r == ReaderBase_read(fs, t.reader, Len(t.s))
    IN  [t EXCEPT !.pc = "loop", !.reader = r.file, !.s = Stored(t.s, r.data)]

\* s.resize(reader.read(s))
trFirstRead(fs, t) ==
    LET r == ReaderBase_read(fs, t.reader, Len(t.s))
    IN  [t EXCEPT !.pc = "loop", !.reader = r.file,
                  !.s = resize(Stored(t.s, r.data), Len(r.data))]

\* One turn of while (true): read BUFFER_SIZE bytes, append them or break;
\* the break leaves the function and ~Reader closes the file
trLoop(fs, t) ==
    LET r == ReaderBase_read(fs, t.reader, BUFFER_SIZE)
    IN  IF Len(r.data) > 0
        THEN [t EXCEPT !.reader = r.file, !.s = t.s \o r.data]
        ELSE [t EXCEPT !.pc = "done", !.reader = Fclose(r.file)]

\* The next statement of testableRead
trStep(fs, t) ==
    CASE t.pc = "start" -> trResize(t)
      [] t.pc = "resized" -> trOpen(fs, t)
      [] t.pc = "opened" -> trFirstRead(fs, t)
      [] t.pc = "loop" -> trLoop(fs, t)
      [] OTHER -> t

trRunning(t) == t.pc \in {"start", "resized", "opened", "loop"}

\* testableRead run to its return or its throw
RECURSIVE trRun(_, _)
trRun(fs, t) == IF trRunning(t) THEN trRun(fs, trStep(fs, t)) ELSE t

\* testableRead(filename, s, size)
testableRead(fs, path, str, n) == trRun(fs, trStart(path, str, n))

\* read(filename): std::string s; testableRead(filename, s, size)
read(fs, path) == testableRead(fs, path, <<>>, size(fs, path))

---------------------------------------------------------------------------
(* testableRead's specification: a file of some content, a size function   *)
(* that returns some n, and testableRead run statement by statement.       *)

ReadPath == "/tmp/tfile.file1.txt"

\* The first k bytes of abcdeabcde...
Pattern(k) == [i \in 1..k |-> <<"a", "b", "c", "d", "e">>[(i % 5) + 1]]

ReadContents == {Pattern(k) : k \in 0..MaxContent}

InitRead ==
    /\ cpp_exceptions \in BOOLEAN
    /\ \E content \in ReadContents :
          files = [p \in {ReadPath} |-> Data(content)]
    /\ \E n \in 0..MaxSize : tr = trStart(ReadPath, <<>>, n)
    /\ nl = "lf" /\ rd = NoFILE /\ line = <<>> /\ ok = FALSE
    /\ lines = <<>> /\ calls = <<>>
    /\ ret = NoCall
    /\ lastWrite = NoCall
    /\ NoHandles

TestableReadStep ==
    /\ trRunning(tr)
    /\ tr' = trStep(files, tr)
    /\ UNCHANGED <<cpp_exceptions, files, lineVars, wholeVars, handleVars>>

NextRead == TestableReadStep

SpecRead == InitRead /\ [][NextRead]_vars

\* The program runs on: a statement that can be executed is executed
SpecReadFair == SpecRead /\ WF_vars(NextRead)

\* C2: whatever the size function returns, testableRead returns, and the
\* string is then exactly the file's content.
C2_ReadsExactly ==
    /\ [](tr.pc = "done" => tr.s = files[ReadPath].data)
    /\ <>(tr.pc = "done")

\* C2's case: the file is more than two buffers longer than the size said,
\* and was drained to its end.
C2_Witness ==
    /\ tr.pc = "done"
    /\ tr.n > 0
    /\ tr.n + 2 * BUFFER_SIZE < Len(files[ReadPath].data)
    /\ tr.s = files[ReadPath].data

---------------------------------------------------------------------------
(* The whole-file helpers' specification: one file, and calls of write,    *)
(* read and size on it; the tests' FileDeleter removes it.                 *)

\* write(filename, data, length), the fwrite transferring n bytes:
\* Writer(filename).write(data, length), then ~Writer closes the file.
\* Without exceptions a Writer that could not open holds nullptr, and
\* fwrite is called on it.
write(fs, path, data, n) ==
    LET o == Fopen(fs, path, modeString("write"), FALSE)
    IN  IF o.ok
        THEN [fs |-> FwriteFs(o.fs, o.file, data, n), val |-> n, thrown |-> "",
              file |-> Fclose(FwriteFile(o.fs, o.file, data, n))]
        ELSE [fs |-> fs, val |-> 0, file |-> o.file,
              thrown |-> IF cpp_exceptions THEN "runtime_error" ELSE "null FILE*"]

WholePath == "/tmp/tfile.file1.txt"

WriteData == SeqsUpTo({"a", "b"}, MaxData)

InitWhole ==
    /\ cpp_exceptions \in BOOLEAN
    /\ \E f \in {NoData, Denied} \cup {Data(b) : b \in SeqsUpTo({"a", "b"}, MaxPrior)} :
          files = [p \in {WholePath} |-> f]
    /\ ret = NoCall
    /\ lastWrite = NoCall
    /\ tr = NoRead
    /\ nl = "lf" /\ rd = NoFILE /\ line = <<>> /\ ok = FALSE
    /\ lines = <<>> /\ calls = <<>>
    /\ NoHandles

\* tfile::write(path, data); fwrite may transfer fewer bytes than asked
Write(path, data) ==
    \E n \in 0..Len(data) :
        LET w == write(files, path, data, n)
        IN  /\ files' = w.fs
            /\ ret' = [op |-> "write", path |-> path, arg |-> data,
                       val |-> w.val, thrown |-> w.thrown,
                       prior |-> Len(files[path].data),
                       closed |-> w.file.st = "closed"]
            /\ lastWrite' = ret'
            /\ UNCHANGED <<cpp_exceptions, lineVars, tr, handleVars>>

\* tfile::read(path)
Read(path) ==
    LET t == read(files, path)
    IN  /\ ret' = [op |-> "read", path |-> path, val |-> t.s,
                   thrown |-> IF t.pc = "done" THEN "" ELSE t.pc]
        /\ UNCHANGED <<cpp_exceptions, files, lineVars, tr, lastWrite, handleVars>>

\* tfile::size(path)
Size(path) ==
    /\ ret' = [op |-> "size", path |-> path, val |-> size(files, path),
               thrown |-> ""]
    /\ UNCHANGED <<cpp_exceptions, files, lineVars, tr, lastWrite, handleVars>>

\* ~FileDeleter: remove(name)
Remove(path) ==
    /\ files[path].exists
    /\ files' = [files EXCEPT ![path] = NoData]
    /\ ret' = [op |-> "remove", path |-> path]
    /\ lastWrite' = NoCall
    /\ UNCHANGED <<cpp_exceptions, lineVars, tr, handleVars>>

NextWhole ==
    \/ \E data \in WriteData : Write(WholePath, data)
    \/ Read(WholePath)
    \/ Size(WholePath)
    \/ Remove(WholePath)

SpecWhole == InitWhole /\ [][NextWhole]_vars

\* The last write(path, B) returned length(B)
WroteAll ==
    /\ lastWrite.op = "write"
    /\ lastWrite.thrown = ""
    /\ lastWrite.val = Len(lastWrite.arg)

\* C1: once write(path, B) has returned length(B), and until the file is
\* written or removed again, the file holds exactly B whatever it held
\* before, read(path) returns B and size(path) returns length(B).
C1_RoundTrip ==
    WroteAll =>
        /\ files[lastWrite.path] = Data(lastWrite.arg)
        /\ (ret.op = "read" /\ ret.path = lastWrite.path)
              => (ret.thrown = "" /\ ret.val = lastWrite.arg)
        /\ (ret.op = "size" /\ ret.path = lastWrite.path)
              => ret.val = Len(lastWrite.arg)

\* C1's case: a file that was longer than B has been written with a
\* non-empty B and read back.
C1_Witness ==
    /\ WroteAll
    /\ lastWrite.prior > Len(lastWrite.arg)
    /\ Len(lastWrite.arg) > 0
    /\ ret.op = "read"
    /\ ret.val = lastWrite.arg

\* C14 as written: write(path, bytes) throws nothing and hands no null FILE*
\* to fwrite, whatever the path; it returns a count no greater than the
\* length asked for, and the Writer it opened is closed when it returns.
C14_WriteNeverThrows ==
    ret.op = "write" =>
        /\ ret.thrown = ""
        /\ ret.val <= Len(ret.arg)
        /\ ret.closed

\* C16 as written: a read(path) that fails, fails with the error of the
\* open, which carries the path: the length measured for a path that cannot
\* be opened is never used to size the buffer.
C16_OnlyOpenErrorFromRead ==
    (ret.op = "read" /\ ret.thrown # "") => ret.thrown = "runtime_error"

---------------------------------------------------------------------------
(* FileHandle, Opener and the first revision's Handle *)

\* A close that leaves the closed pointer in the handle
FileHandle_closeKeeps(tab, file_, rc) ==
    IF file_ # 0
    THEN [tab |-> [tab EXCEPT ![file_] = Fclose(@)], file_ |-> file_,
          result |-> rc]
    ELSE [tab |-> tab, file_ |-> 0, result |-> 0]

\* FileHandle::close(): rc is what fclose returns
FileHandle_close(tab, file_, rc) ==
    IF file_ # 0
    THEN [tab |-> [tab EXCEPT ![file_] = Fclose(@)], file_ |-> 0, result |-> rc]
    ELSE [tab |-> tab, file_ |-> 0, result |-> 0]

\* FileHandle::set(FILE* file)
FileHandle_set(tab, file_, file) ==
    [tab |-> FileHandle_close(tab, file_, 0).tab, file_ |-> file]

\* A release that returns the pointer and keeps it
FileHandle_releaseKeeps(file_) == [value |-> file_, file_ |-> file_]

\* FileHandle::release()
FileHandle_release(file_) == [value |-> file_, file_ |-> 0]

\* A constructor that does not look at what fopen returned
OpenFailureIgnored(k) == FALSE

\* Whether a constructor whose fopen failed throws std::runtime_error:
\* FileHandle's under #ifdef __cpp_exceptions, Handle's always
OpenFailureThrows(k) == k.cls = "Handle" \/ cpp_exceptions

---------------------------------------------------------------------------
(* The handles' specification: up to two objects of one handle type on     *)
(* the two files of the test "move semantics", constructed, moved, used,   *)
(* closed, released and destroyed in any order.                            *)

Objs == {"rw1", "rw2"}

HandlePaths == {"/tmp/tfile.file1.txt", "/tmp/tfile.file2.txt"}

NoObject == [life |-> "none", file_ |-> 0]

\* The type of the test "move semantics"
ReaderWriter == [cls |-> "Opener", of |-> "readWrite"]

\* The state before any handle is constructed, the objects being of a type
\* of ks and each file missing or empty
InitKinds(ks) ==
    /\ kind \in ks
    \* src/tfile.h throws unconditionally: it builds only with exceptions
    /\ cpp_exceptions \in (IF kind.cls = "Handle" THEN {TRUE} ELSE BOOLEAN)
    /\ files \in [HandlePaths -> {NoData, Data(<<>>)}]
    /\ fdtab = <<>>
    /\ objs = [o \in Objs |-> NoObject]
    /\ crashed = FALSE
    /\ ret = NoCall
    /\ lastWrite = NoCall
    /\ tr = NoRead
    /\ nl = "lf" /\ rd = NoFILE /\ line = <<>> /\ ok = FALSE
    /\ lines = <<>> /\ calls = <<>>

InitHandles == InitKinds({ReaderWriter})

InitOpen == InitKinds(Kinds)

Live(o) == ~crashed /\ objs[o].life = "live"
IsOpener == kind.cls = "Opener"

\* A stdio call on a null FILE* is undefined: the process dies or goes on
NullCall(op) ==
    /\ crashed' \in BOOLEAN
    /\ ret' = [op |-> op, null |-> TRUE]
    /\ UNCHANGED <<files, fdtab, objs>>

\* A stdio call on a FILE that fclose has already closed is undefined too
StaleCall(op) ==
    /\ crashed' \in BOOLEAN
    /\ ret' = [op |-> op, null |-> FALSE]
    /\ UNCHANGED <<files, fdtab, objs>>

\* What ret holds after a call whose outcome no caller looks at
Returned == [op |-> "returned"]

\* Opener(filename) / Handle(name, mode): fopen, and throw if it failed
Construct(o, path) ==
    /\ ~crashed
    /\ objs[o].life = "none"
    /\ \E atEnd \in (IF KindModeString(kind) = "a+" THEN BOOLEAN ELSE {FALSE}) :
          LET r == Fopen(files, path, KindModeString(kind), atEnd)
              throws == ~r.ok /\ OpenFailureThrows(kind)
          IN  /\ files' = r.fs
              /\ fdtab' = IF r.ok THEN Append(fdtab, r.file) ELSE fdtab
              /\ objs' = IF throws THEN objs
                          ELSE [objs EXCEPT ![o] =
                                  [life |-> "live",
                                   file_ |-> IF r.ok THEN Len(fdtab) + 1 ELSE 0]]
              /\ ret' = [op |-> "open",
                         thrown |-> IF throws THEN "runtime_error" ELSE "",
                         what |-> IF throws THEN path ELSE ""]
    /\ UNCHANGED <<cpp_exceptions, kind, crashed, lineVars, tr, lastWrite>>

\* Opener(): FileHandle(nullptr)
DefaultConstruct(o) ==
    /\ ~crashed /\ IsOpener
    /\ objs[o].life = "none"
    /\ objs' = [objs EXCEPT ![o] = [life |-> "live", file_ |-> 0]]
    /\ ret' = Returned
    /\ UNCHANGED <<cpp_exceptions, files, kind, fdtab, crashed, lineVars, tr,
                   lastWrite>>

\* Opener(Opener&& other): Base(other.release())
MoveConstruct(o, other) ==
    /\ IsOpener /\ Live(other)
    /\ objs[o].life = "none"
    /\ LET r == FileHandle_release(objs[other].file_)
       IN  /\ objs' = [objs EXCEPT ![other].file_ = r.file_,
                                   ![o] = [life |-> "live", file_ |-> r.value]]
           /\ ret' = Returned
    /\ UNCHANGED <<cpp_exceptions, files, kind, fdtab, crashed, lineVars, tr,
                   lastWrite>>

\* Opener& operator=(Opener&& other): this->set(other.release())
MoveAssign(o, other) ==
    /\ IsOpener /\ Live(o) /\ Live(other)
    /\ LET r == FileHandle_release(objs[other].file_)
           released == [objs EXCEPT ![other].file_ = r.file_]
           s == FileHandle_set(fdtab, released[o].file_, r.value)
       IN  /\ objs' = [released EXCEPT ![o].file_ = s.file_]
           /\ fdtab' = s.tab
           /\ ret' = [op |-> "assign",
                      moved |-> objs[other].file_ # 0,
                      closed |-> released[o].file_ # 0]
    /\ UNCHANGED <<cpp_exceptions, files, kind, crashed, lineVars, tr, lastWrite>>

\* close()
Close(o) ==
    /\ IsOpener /\ Live(o)
    /\ \E rc \in (IF objs[o].file_ # 0 THEN {0, -1} ELSE {0}) :
          LET c == FileHandle_close(fdtab, objs[o].file_, rc)
          IN  /\ fdtab' = c.tab
              /\ objs' = [objs EXCEPT ![o].file_ = c.file_]
              /\ ret' = [op |-> "close", val |-> c.result,
                         held |-> objs[o].file_ # 0]
    /\ UNCHANGED <<cpp_exceptions, files, kind, crashed, lineVars, tr, lastWrite>>

\* release(), called by the user of the handle, who then owns the FILE
Release(o) ==
    /\ IsOpener /\ Live(o)
    /\ LET r == FileHandle_release(objs[o].file_)
       IN  /\ objs' = [objs EXCEPT ![o].file_ = r.file_]
           /\ fdtab' = IF r.value = 0 THEN fdtab
                        ELSE [fdtab EXCEPT ![r.value].released = TRUE]
           /\ ret' = [op |-> "release", val |-> r.value]
    /\ UNCHANGED <<cpp_exceptions, files, kind, crashed, lineVars, tr, lastWrite>>

\* Handle(Handle&&) = default of src/tfile.h: the pointer is copied
HandleMove(o, other) ==
    /\ ~IsOpener /\ Live(other)
    /\ objs[o].life = "none"
    /\ objs' = [objs EXCEPT ![o] = [life |-> "live", file_ |-> objs[other].file_]]
    /\ ret' = [op |-> "move", from |-> other, to |-> o]
    /\ UNCHANGED <<cpp_exceptions, files, kind, fdtab, crashed, lineVars, tr,
                   lastWrite>>

\* ~FileHandle() { close(); }, and ~Handle() { fclose(file_); } of
\* src/tfile.h, which closes whatever file_ points to and keeps the pointer;
\* fclose of a FILE already closed is undefined
Destroy(o) ==
    /\ Live(o)
    /\ IF IsOpener
       THEN LET c == FileHandle_close(fdtab, objs[o].file_, 0)
            IN  /\ fdtab' = c.tab
                /\ objs' = [objs EXCEPT ![o] = [life |-> "dead", file_ |-> c.file_]]
                /\ UNCHANGED crashed
       ELSE LET p == objs[o].file_
            IN  /\ fdtab' = [fdtab EXCEPT ![p] = Fclose(@)]
                /\ objs' = [objs EXCEPT ![o].life = "dead"]
                /\ crashed' \in (IF fdtab[p].st = "closed" THEN BOOLEAN ELSE {FALSE})
    /\ ret' = Returned
    /\ UNCHANGED <<cpp_exceptions, files, kind, lineVars, tr, lastWrite>>

\* seek(0): fseeko(file_, 0, SEEK_SET)
Seek(o) ==
    /\ Live(o)
    /\ LET p == objs[o].file_
       IN  IF p = 0 THEN NullCall("seek")
           ELSE /\ fdtab' = [fdtab EXCEPT ![p].pos = 0, ![p].eof = FALSE]
                /\ ret' = Returned
                /\ UNCHANGED <<files, objs, crashed>>
    /\ UNCHANGED <<cpp_exceptions, kind, lineVars, tr, lastWrite>>

\* eof(): file_ && feof(file_)
Eof(o) ==
    /\ IsOpener /\ Live(o)
    /\ LET p == objs[o].file_
       IN  ret' = [op |-> "eof", val |-> (p # 0 /\ fdtab[p].eof)]
    /\ UNCHANGED <<cpp_exceptions, files, kind, fdtab, objs, crashed, lineVars, tr,
                   lastWrite>>

\* read(&ch, 1), which exists when the type can read: fread(.., file_)
ReadOp(o) ==
    /\ Live(o) /\ KindCanRead(kind)
    /\ LET p == objs[o].file_
       IN  IF p = 0 THEN NullCall("read")
           ELSE IF fdtab[p].st = "closed" THEN StaleCall("read")
           ELSE LET r == ReaderBase_read(files, fdtab[p], 1)
                IN  /\ fdtab' = [fdtab EXCEPT ![p] = r.file]
                    /\ ret' = Returned
                    /\ UNCHANGED <<files, objs, crashed>>
    /\ UNCHANGED <<cpp_exceptions, kind, lineVars, tr, lastWrite>>

\* write("a"), which exists when the type can write: fwrite(.., file_)
WriteOp(o) ==
    /\ Live(o) /\ KindCanWrite(kind)
    /\ LET p == objs[o].file_
       IN  IF p = 0 THEN NullCall("write")
           ELSE IF fdtab[p].st = "closed" THEN StaleCall("write")
           ELSE /\ Len(files[fdtab[p].path].data) < MaxFileLen
                /\ \E n \in 0..1 :
                      /\ files' = FwriteFs(files, fdtab[p], <<"a">>, n)
                      /\ fdtab' = [fdtab EXCEPT ![p] =
                                      FwriteFile(files, fdtab[p], <<"a">>, n)]
                      /\ ret' = Returned
                /\ UNCHANGED <<objs, crashed>>
    /\ UNCHANGED <<cpp_exceptions, kind, lineVars, tr, lastWrite>>

Next ==
    \/ \E o \in Objs, path \in HandlePaths : Construct(o, path)
    \/ \E o \in Objs : DefaultConstruct(o)
    \/ \E o, other \in Objs : MoveConstruct(o, other)
    \/ \E o, other \in Objs : MoveAssign(o, other)
    \/ \E o \in Objs : Close(o)
    \/ \E o \in Objs : Release(o)
    \/ \E o \in Objs : Destroy(o)
    \/ \E o \in Objs : Seek(o)
    \/ \E o \in Objs : Eof(o)
    \/ \E o \in Objs : ReadOp(o)
    \/ \E o \in Objs : WriteOp(o)

Spec == InitHandles /\ [][Next]_vars

\* Every handle type: constructed, read or written where the type has the
\* method, and destroyed; a Handle of src/tfile.h also moved from
NextOpen ==
    \/ \E o \in Objs, path \in HandlePaths : Construct(o, path)
    \/ \E o, other \in Objs : HandleMove(o, other)
    \/ \E o \in Objs : ReadOp(o)
    \/ \E o \in Objs : WriteOp(o)
    \/ \E o \in Objs : Destroy(o)

SpecOpen == InitOpen /\ [][NextOpen]_vars

---------------------------------------------------------------------------
(* Claims about the handles *)

\* The live objects that hold FILE* f
Holders(f) == {o \in Objs : objs[o].life = "live" /\ objs[o].file_ = f}

\* C3 as written: constructing on a path that does not exist throws the
\* error with the path and leaves no object when the mode is Read, and
\* succeeds with an empty file created when the mode is Write.
C3_Original ==
    [][\A o \in Objs, path \in HandlePaths :
         (Construct(o, path) /\ ~files[path].exists) =>
            /\ KindMode(kind) = "read" =>
                  /\ ret'.thrown = "runtime_error" /\ ret'.what = path
                  /\ objs'[o].life = "none"
            /\ KindMode(kind) = "write" =>
                  /\ ret'.thrown = ""
                  /\ objs'[o].life = "live" /\ objs'[o].file_ # 0
                  /\ fdtab'[objs'[o].file_].st = "open"
                  /\ files'[path] = Data(<<>>)]_vars

\* C3 as amended: the same in a build with exceptions (src/tfile.h always
\* is one); built without them, a FileHandle constructed for Read on a
\* path that does not exist comes into existence empty, and nothing is
\* thrown.
C3_OpenMissingPath ==
    [][\A o \in Objs, path \in HandlePaths :
         (Construct(o, path) /\ ~files[path].exists) =>
            /\ (KindMode(kind) = "read" /\ (kind.cls = "Handle" \/ cpp_exceptions)) =>
                  /\ ret'.thrown = "runtime_error" /\ ret'.what = path
                  /\ objs'[o].life = "none"
                  /\ files' = files /\ fdtab' = fdtab
            /\ (KindMode(kind) = "read" /\ kind.cls = "Opener" /\ ~cpp_exceptions) =>
                  /\ ret'.thrown = ""
                  /\ objs'[o] = [life |-> "live", file_ |-> 0]
                  /\ files' = files /\ fdtab' = fdtab
            /\ KindMode(kind) = "write" =>
                  /\ ret'.thrown = ""
                  /\ objs'[o].life = "live" /\ objs'[o].file_ # 0
                  /\ fdtab'[objs'[o].file_].st = "open"
                  /\ files'[path] = Data(<<>>)]_vars

\* C3's case: a Read-mode constructor has just thrown for a path that
\* names no file.
C3_Witness ==
    /\ KindMode(kind) = "read"
    /\ ret.op = "open" /\ ret.thrown = "runtime_error"
    /\ ret.what \in HandlePaths /\ ~files[ret.what].exists

\* No two live objects hold the same FILE*
OneOwner ==
    \A o1, o2 \in Objs :
        (o1 # o2 /\ objs[o1].life = "live" /\ objs[o2].life = "live"
           /\ objs[o1].file_ # 0) => objs[o1].file_ # objs[o2].file_

\* A write through an object changes no file but the one its FILE* is on
WritesReach ==
    \A o \in Objs : (WriteOp(o) /\ objs[o].file_ # 0) =>
        \A q \in HandlePaths :
            files'[q] # files[q] => q = fdtab[objs[o].file_].path

\* C4 as written: no two live Openers hold the same FILE*, and every move
\* leaves its source empty, its destination holding the source's FILE*,
\* and the FILE* the destination held closed.
C4_Original ==
    /\ []OneOwner
    /\ [][/\ \A dst, src \in Objs :
               (MoveConstruct(dst, src) \/ MoveAssign(dst, src)) =>
                  /\ objs'[src].file_ = 0
                  /\ objs'[dst].file_ = objs[src].file_
                  /\ (objs[dst].life = "live" /\ objs[dst].file_ # 0) =>
                        /\ fdtab'[objs[dst].file_].st = "closed"
                        /\ fdtab'[objs[dst].file_].closes = 1
           /\ WritesReach]_vars

\* C4 as amended: the same for every move between two distinct Openers; a
\* move-assignment of an Opener to itself leaves it holding its FILE*,
\* which stays open.
C4_MovesTransferOwnership ==
    /\ []OneOwner
    /\ [][/\ \A dst, src \in Objs :
               ((MoveConstruct(dst, src) \/ MoveAssign(dst, src)) /\ dst # src) =>
                  /\ objs'[src].file_ = 0
                  /\ objs'[dst].file_ = objs[src].file_
                  /\ objs'[dst].life = "live"
                  /\ (objs[dst].life = "live" /\ objs[dst].file_ # 0) =>
                        /\ fdtab'[objs[dst].file_].st = "closed"
                        /\ fdtab'[objs[dst].file_].closes = 1
                  /\ objs[src].file_ # 0 => fdtab'[objs[src].file_] = fdtab[objs[src].file_]
           /\ \A o \in Objs : MoveAssign(o, o) => (objs' = objs /\ fdtab' = fdtab)
           /\ WritesReach]_vars

\* C4's case: an Opener that held an open file has just been assigned the
\* open file of another Opener.
C4_Witness ==
    /\ ret.op = "assign" /\ ret.moved /\ ret.closed
    /\ \E dst, src \in Objs :
          /\ dst # src /\ objs[src] = [life |-> "live", file_ |-> 0]
          /\ objs[dst].life = "live" /\ objs[dst].file_ # 0
          /\ fdtab[objs[dst].file_].st = "open"

\* C5: the library closes a FILE at most once; a FILE release() gave away
\* is never closed by it and is held by no handle; any other FILE is held
\* by exactly one live handle and open, or by none and closed exactly once
\* (so it is closed once its handle was closed or destroyed); and a close()
\* of a handle that holds nothing returns 0.
C5_ClosedExactlyOnce ==
    /\ \A f \in 1..Len(fdtab) :
          /\ fdtab[f].closes <= 1
          /\ fdtab[f].released => (fdtab[f].closes = 0 /\ Holders(f) = {})
          /\ ~fdtab[f].released =>
                \/ fdtab[f].closes = 1 /\ fdtab[f].st = "closed" /\ Holders(f) = {}
                \/ fdtab[f].closes = 0 /\ fdtab[f].st = "open"
                     /\ Cardinality(Holders(f)) = 1
    /\ \A o \in Objs : objs[o].life = "dead" => objs[o].file_ = 0
    /\ (ret.op = "close" /\ ~ret.held) => ret.val = 0
    /\ (ret.op = "release" /\ ret.val # 0) =>
          (fdtab[ret.val].released /\ fdtab[ret.val].st = "open")

\* C5's case: a handle whose file was closed by close() has been closed
\* again, and another handle gave its file away and was destroyed.
C5_Witness ==
    /\ ret.op = "close" /\ ~ret.held
    /\ \E f \in 1..Len(fdtab) : fdtab[f].closes = 1 /\ ~fdtab[f].released
    /\ \E f \in 1..Len(fdtab) : fdtab[f].closes = 0 /\ fdtab[f].released
    /\ \E o \in Objs : objs[o].life = "dead"

\* C17 as written: for the Handle of src/tfile.h, after a Handle has been
\* move-constructed from another the two do not both hold the FILE*, and
\* over the lives of both the FILE is closed at most once.
C17_LegacyMoveClosesOnce ==
    kind.cls = "Handle" =>
        /\ OneOwner
        /\ \A f \in 1..Len(fdtab) : fdtab[f].closes <= 1

\* C6 as written: no operation of a handle hands a null FILE* to stdio, and
\* none ends the process.
C6_EmptyHandleFailsCleanly ==
    /\ ret.op \in {"seek", "read", "write"} => ~ret.null
    /\ ~crashed

\* The table of open modes of the specification, section 6
ModeTable(mode) ==
    CASE mode = "read" -> [read |-> TRUE, write |-> FALSE, str |-> "r"]
      [] mode = "readWrite" -> [read |-> TRUE, write |-> TRUE, str |-> "r+"]
      [] mode = "write" -> [read |-> FALSE, write |-> TRUE, str |-> "w"]
      [] mode = "truncate" -> [read |-> TRUE, write |-> TRUE, str |-> "w+"]
      [] mode = "append" -> [read |-> FALSE, write |-> TRUE, str |-> "a"]
      [] mode = "readAppend" -> [read |-> TRUE, write |-> TRUE, str |-> "a+"]

\* C7 as written: a handle that has been opened has read methods exactly
\* when its mode's row says Read, write methods exactly when it says Write,
\* and its FILE was opened with the row's mode string.
C7_CapabilitiesMatchModeTable ==
    \A o \in Objs : (objs[o].life = "live" /\ objs[o].file_ # 0) =>
        /\ KindCanRead(kind) = ModeTable(KindMode(kind)).read
        /\ KindCanWrite(kind) = ModeTable(KindMode(kind)).write
        /\ fdtab[objs[o].file_].mode = ModeTable(KindMode(kind)).str

---------------------------------------------------------------------------
(* The line reader's specification: a file is written, a Reader opened on  *)
(* it, and readOne called until it returns false.                          *)

LinePath == "lines.txt"

\* The input of the tests "readLine linux" and "readLine windows"
TestInput ==
    <<"l", "i", "n", "e", "1", LF, "l", CR, "i", "n", "e", "2", CR, LF,
      "l", "i", "n", "e", "3">>

\* A "\r" followed by the Windows newline
CrCrLfInput == <<"a", CR, CR, LF, "b">>

LineInputs == SeqsUpTo({CR, LF, "a"}, MaxInput) \cup {TestInput, CrCrLfInput}

InitLines ==
    /\ cpp_exceptions \in BOOLEAN
    /\ nl \in Newlines
    /\ \E input \in LineInputs :
          /\ files = [p \in {LinePath} |-> Data(input)]
          /\ rd = Fopen(files, LinePath, "r", FALSE).file
    /\ line = <<>>
    /\ ok = TRUE
    /\ lines = <<>>
    /\ calls = <<>>
    /\ tr = NoRead
    /\ ret = NoCall
    /\ lastWrite = NoCall
    /\ NoHandles

\* while (readLine(reader, line)) lines.push_back(line);
ReadLine ==
    /\ ok
    /\ LET r == readOne(nl, files, rd)
       IN  /\ rd' = r.file
           /\ line' = r.line
           /\ ok' = r.ok
           /\ lines' = IF r.ok THEN Append(lines, r.line) ELSE lines
           /\ calls' = Append(calls, [from |-> rd.pos, to |-> r.file.pos,
                                      eof |-> r.file.eof, ok |-> r.ok,
                                      line |-> r.line])
    /\ UNCHANGED <<cpp_exceptions, files, nl, tr, ret, lastWrite, handleVars>>

NextLines == ReadLine

SpecLines == InitLines /\ [][NextLines]_vars

---------------------------------------------------------------------------
(* Claims about the line reader *)

LineInput == files[LinePath].data

\* The k-th smallest element of a finite set of integers
Kth(S, k) == CHOOSE p \in S : Cardinality({q \in S : q <= p}) = k

\* What the Unix policy promises for an input: the pieces between
\* consecutive "\n" bytes, then the unterminated tail if it is not empty.
UnixPieces(input) ==
    LET at == {i \in 1..Len(input) : input[i] = LF}
        n == Cardinality(at)
        end(k) == Kth(at, k)
        start(k) == IF k = 1 THEN 1 ELSE Kth(at, k - 1) + 1
        last == IF n = 0 THEN 0 ELSE Kth(at, n)
        terminated == [k \in 1..n |-> SubSeq(input, start(k), end(k) - 1)]
    IN  IF last < Len(input)
        THEN Append(terminated, SubSeq(input, last + 1, Len(input)))
        ELSE terminated

\* C8: under the Unix policy the lines returned are, in order, the pieces of
\* the input between consecutive "\n" bytes with every other byte kept, an
\* empty terminated piece is a successful empty line, a non-empty tail is a
\* final successful line, and a call returns false exactly when it met the
\* end of the stream having read no byte.
C8_UnixLines ==
    nl = "lf" =>
        /\ Len(lines) <= Len(UnixPieces(LineInput))
        /\ lines = SubSeq(UnixPieces(LineInput), 1, Len(lines))
        /\ ~ok => lines = UnixPieces(LineInput)
        /\ \A i \in 1..Len(calls) :
              /\ ~calls[i].ok <=> (calls[i].to = calls[i].from /\ calls[i].eof)
              /\ ~calls[i].ok <=> calls[i].to = calls[i].from

\* C8's case: every line of an input with an empty line, a "\r" and an
\* unterminated tail has been read.
C8_Witness ==
    /\ nl = "lf" /\ ~ok
    /\ \E i \in 1..Len(lines) : lines[i] = <<>>
    /\ \E i \in 1..Len(lines) : \E j \in 1..Len(lines[i]) : lines[i][j] = CR
    /\ Len(LineInput) > 0 /\ LineInput[Len(LineInput)] # LF

\* The bytes a call consumed, without the two bytes of the terminator when
\* the call did not run into the end of the stream
CallBody(c) ==
    IF c.eof THEN SubSeq(LineInput, c.from + 1, c.to)
    ELSE SubSeq(LineInput, c.from + 1, c.to - 2)

\* C9 as written: under the Windows policy every "\r\n" pair and every bare
\* "\n" that was read ends the line of the call that read it, and is not
\* part of the line.
C9_Original ==
    nl = "cr_lf" =>
        \A i \in 1..Len(calls) :
            \A p \in (calls[i].from + 1)..calls[i].to :
                LineInput[p] = LF =>
                    /\ p = calls[i].to
                    /\ calls[i].ok
                    /\ \A j \in 1..Len(calls[i].line) : calls[i].line[j] # LF

\* C9 as amended: under the Windows policy a line ends before the end of
\* the stream only at a "\r\n" pair, which is not part of the line, while
\* every other byte read, a bare "\n" included, is content of the line; and
\* a "\r\n" pair whose "\r" does not itself follow a "\r" ends a line.
C9_OnlyCrLfEndsLine ==
    nl = "cr_lf" =>
        /\ \A i \in 1..Len(calls) :
              LET c == calls[i]
              IN  /\ ~c.eof => /\ c.ok
                               /\ c.to >= c.from + 2
                               /\ LineInput[c.to - 1] = CR
                               /\ LineInput[c.to] = LF
                  /\ c.line = CallBody(c)
        /\ \A p \in 2..rd.pos :
              (/\ LineInput[p] = LF
               /\ LineInput[p - 1] = CR
               /\ (p = 2 \/ LineInput[p - 2] # CR))
              => \E i \in 1..Len(calls) : calls[i].to = p /\ ~calls[i].eof

\* C9's case: a line that holds a bare "\n" has been ended by "\r\n".
C9_Witness ==
    /\ nl = "cr_lf"
    /\ \E i \in 1..Len(calls) :
          /\ ~calls[i].eof
          /\ \E j \in 1..Len(calls[i].line) : calls[i].line[j] = LF

\* What the test "readLine windows" expects
TestWindowsLines ==
    << <<"l", "i", "n", "e", "1", LF, "l", CR, "i", "n", "e", "2">>,
       <<"l", "i", "n", "e", "3">> >>

\* C10: under the Windows policy the test's input gives exactly the test's
\* two lines; a "\r" followed by a byte other than "\n" is in the line at
\* its place; and a "\r" that is the last byte of the stream ends the final
\* line, which is returned as successful.
C10_WindowsTestLines ==
    nl = "cr_lf" =>
        /\ (LineInput = TestInput /\ ~ok) => lines = TestWindowsLines
        /\ \A i \in 1..Len(calls) :
              \A p \in (calls[i].from + 1)..calls[i].to :
                  (LineInput[p] = CR /\ p < Len(LineInput) /\ LineInput[p + 1] # LF)
                  => /\ Len(calls[i].line) >= p - calls[i].from
                     /\ calls[i].line[p - calls[i].from] = CR
        /\ (~ok /\ Len(LineInput) > 0 /\ LineInput[Len(LineInput)] = CR)
              => /\ Len(lines) > 0
                 /\ Len(lines[Len(lines)]) > 0
                 /\ lines[Len(lines)][Len(lines[Len(lines)])] = CR
                 /\ \E i \in 1..Len(calls) :
                       calls[i].ok /\ calls[i].to = Len(LineInput) /\ calls[i].eof

\* C10's case: the test's input has been read to its end.
C10_Witness ==
    nl = "cr_lf" /\ LineInput = TestInput /\ ~ok /\ Len(lines) = 2

---------------------------------------------------------------------------
(* Writing and reading lines: LineWriter, and LineReader's bulk reads *)

\* Most lines handed to one writeLines
MaxLines == 3

\* WriterBase::write(const char* data, size_t length) on an open FILE, the
\* device taking at most room more bytes
WriterBase_write(fs, f, data, room) ==
    LET n == Min(Len(data), room)
    IN  [fs |-> FwriteFs(fs, f, data, n), file |-> FwriteFile(fs, f, data, n),
         val |-> n]

\* A writeOne that writes the newline before the line
writeOneNewlineFirst(NL, fs, f, s, room) ==
    LET a == WriterBase_write(fs, f, newlineString(NL), room)
        b == WriterBase_write(a.fs, a.file, s, room - a.val)
    IN  [fs |-> b.fs, file |-> b.file, val |-> a.val + b.val]

\* LineWriter<NL, Writer>::writeOne(s):
\* writer_.write(s) + writer_.write(newlineString<NL>()), the operands
\* evaluated in the order written
writeOne(NL, fs, f, s, room) ==
    LET a == WriterBase_write(fs, f, s, room)
        b == WriterBase_write(a.fs, a.file, newlineString(NL), room - a.val)
    IN  [fs |-> b.fs, file |-> b.file, val |-> a.val + b.val]

\* LineWriter<NL, Writer>::write(begin, end): size += writeOne(*begin)
\* (one is bound to the value of writeOne, which is so computed once)
RECURSIVE LineWriter_write(_, _, _, _, _)
LineWriter_write(NL, fs, f, c, room) ==
    IF c = <<>> THEN [fs |-> fs, file |-> f, val |-> 0]
    ELSE LET after(one) ==
                 LET rest == LineWriter_write(NL, one.fs, one.file, Tail(c),
                                      room - one.val)
                 IN  [fs |-> rest.fs, file |-> rest.file, val |-> one.val + rest.val]
         IN  CHOOSE out \in {after(one) : one \in {writeOne(NL, fs, f, Head(c), room)}} : TRUE

\* writeLines(filename, c): Writer(filename).writeLines().write(c), then
\* ~Writer closes the file
writeLines(NL, fs, path, c, room) ==
    LET o == Fopen(fs, path, modeString("write"), FALSE)
    IN  IF o.ok
        THEN LET w == LineWriter_write(NL, o.fs, o.file, c, room)
             IN  [fs |-> w.fs, val |-> w.val, thrown |-> "",
                  file |-> Fclose(w.file)]
        ELSE [fs |-> fs, val |-> 0, file |-> o.file,
              thrown |-> IF cpp_exceptions THEN "runtime_error"
                         ELSE "null FILE*"]

\* LineReader<NL, Reader>::forEach(f): the lines f is called with, in order
RECURSIVE forEach(_, _, _, _)
\* (r is bound to the value of readOne, which is so computed once)
forEach(NL, fs, f, called) ==
    LET step(r) == IF r.ok THEN forEach(NL, fs, r.file, Append(called, r.line))
                   ELSE [called |-> called, file |-> r.file]
    IN  CHOOSE out \in {step(r) : r \in {readOne(NL, fs, f)}} : TRUE

\* LineReader<NL, Reader>::fill(begin), begin a std::back_inserter of the
\* container c: forEach with *begin = s
fill(NL, fs, f, c) ==
    LET e == forEach(NL, fs, f, <<>>)
    IN  [c |-> c \o e.called, file |-> e.file]

\* LineReader<NL, Reader>::read(Container& c): fill(std::back_inserter(c))
LineReader_read(NL, fs, f, c) == fill(NL, fs, f, c)

\* A Reader(filename) temporary, what of the LineReader is run on it: "read"
\* for lines().read(), "fill" for lines().fill(std::back_inserter(lines)),
\* "forEach" for lines().forEach(f)
readLinesBy(what, NL, fs, path) ==
    LET o == Fopen(fs, path, modeString("read"), FALSE)
    IN  IF ~o.ok
        THEN [val |-> <<>>, file |-> o.file,
              thrown |-> IF cpp_exceptions THEN "runtime_error"
                         ELSE "null FILE*"]
        ELSE CASE what = "read" ->
                    LET r == LineReader_read(NL, fs, o.file, <<>>)
                    IN  [val |-> r.c, file |-> Fclose(r.file), thrown |-> ""]
               [] what = "fill" ->
                    LET r == fill(NL, fs, o.file, <<>>)
                    IN  [val |-> r.c, file |-> Fclose(r.file), thrown |-> ""]
               [] what = "forEach" ->
                    LET r == forEach(NL, fs, o.file, <<>>)
                    IN  [val |-> r.called, file |-> Fclose(r.file), thrown |-> ""]

\* readLines(filename): Reader(filename).lines().read()
readLines(NL, fs, path) == readLinesBy("read", NL, fs, path)

---------------------------------------------------------------------------
(* The specification of the tests "line iteration": lines are written to   *)
(* the test's file under a newline policy and read back under the same.    *)

\* The lines of the tests, and lines holding the bytes of the newlines
LineChoices ==
    {<<>>, <<"h", "e", "l", "l", "o">>, <<"w", "o", "r", "l", "d">>,
     <<CR>>, <<LF>>}

LineLists == SeqsUpTo(LineChoices, MaxLines)

RECURSIVE TotalBytes(_, _)
TotalBytes(NL, c) ==
    IF c = <<>> THEN 0
    ELSE Len(Head(c)) + Len(newlineString(NL)) + TotalBytes(NL, Tail(c))

\* The tests are built with exceptions, and each starts with the file
\* removed by the FileDeleter of the test before it
InitWriteLines ==
    /\ cpp_exceptions = TRUE
    /\ nl \in Newlines
    /\ files = [p \in {LinePath} |-> NoData]
    /\ ret = NoCall
    /\ lastWrite = NoCall
    /\ tr = NoRead
    /\ rd = NoFILE /\ line = <<>> /\ ok = FALSE
    /\ lines = <<>> /\ calls = <<>>
    /\ NoHandles

\* tfile::writeLines(path, c), the first statement of each test; the
\* device takes room bytes and no more
WriteLines(path, c) ==
    /\ lastWrite = NoCall
    /\ \E room \in 0..TotalBytes(nl, c) :
        LET w == writeLines(nl, files, path, c, room)
        IN  /\ files' = w.fs
            /\ ret' = [op |-> "writeLines", path |-> path, arg |-> c,
                       val |-> w.val, thrown |-> w.thrown]
            /\ lastWrite' = ret'
            /\ UNCHANGED <<cpp_exceptions, lineVars, tr, handleVars>>

\* What ret holds after the lines of the file were read back
ReadBack(what, path) ==
    LET r == readLinesBy(what, nl, files, path)
    IN  [op |-> what, path |-> path, val |-> r.val, thrown |-> r.thrown,
         closed |-> r.file.st = "closed"]

\* tfile::readLines(path): all the lines by read()
ReadLines(path) ==
    /\ ret' = ReadBack("read", path)
    /\ UNCHANGED <<cpp_exceptions, files, lineVars, tr, lastWrite, handleVars>>

\* Reader(path).lines().fill(std::back_inserter(lines))
FillLines(path) ==
    /\ ret' = ReadBack("fill", path)
    /\ UNCHANGED <<cpp_exceptions, files, lineVars, tr, lastWrite, handleVars>>

\* Reader(path).lines().forEach(f), f recording the lines it is called with
ForEachLine(path) ==
    /\ ret' = ReadBack("forEach", path)
    /\ UNCHANGED <<cpp_exceptions, files, lineVars, tr, lastWrite, handleVars>>

NextWriteLines ==
    \/ \E c \in LineLists : WriteLines(LinePath, c)
    \/ ReadLines(LinePath)
    \/ FillLines(LinePath)
    \/ ForEachLine(LinePath)

SpecWriteLines == InitWriteLines /\ [][NextWriteLines]_vars

\* No line of c holds a byte of the newline of policy NL
NoTerminatorByte(NL, c) ==
    \A i \in 1..Len(c) : \A j \in 1..Len(c[i]) :
        \A k \in 1..Len(newlineString(NL)) : c[i][j] # newlineString(NL)[k]

\* The lines of the tests "line iteration"
TestLines == << <<"h", "e", "l", "l", "o">>, <<"w", "o", "r", "l", "d">>, <<>> >>

---------------------------------------------------------------------------
(* Reading a file a buffer at a time: the second half of the test "write"  *)

\* Longest generated file read in chunks, longest buffer, most read calls
MaxChunkFile == 5
MaxBuffer == 3
MaxReads == 6

\* A read that leaves in the string nothing but the bytes read
ReaderBase_readStringOnly(fs, f, s) ==
    LET r == ReaderBase_read(fs, f, Len(s))
    IN  [val |-> Len(r.data), s |-> r.data, file |-> r.file]

\* ReaderBase::read(std::string& s): read(&s[0], s.size())
ReaderBase_readString(fs, f, s) ==
    LET r == ReaderBase_read(fs, f, Len(s))
    IN  [val |-> Len(r.data), s |-> Stored(s, r.data), file |-> r.file]

ChunkPath == "/tmp/tfile.file1.txt"

\* What the test has written when it starts to read
HelloWorld == <<"h", "e", "l", "l", "o", " ", "w", "o", "r", "l", "d">>

ChunkContents == {Pattern(k) : k \in 0..MaxChunkFile} \cup {HelloWorld}

\* std::string(k, ' ')
Blank(k) == [i \in 1..k |-> " "]

\* tfile::Reader reader(testFilename); std::string buffer(k, ' ');
InitChunks ==
    /\ cpp_exceptions \in BOOLEAN
    /\ \E content \in ChunkContents :
          /\ files = [p \in {ChunkPath} |-> Data(content)]
          /\ rd = Fopen(files, ChunkPath, modeString("read"), FALSE).file
    /\ \E k \in 0..MaxBuffer : line = Blank(k)
    /\ nl = "lf" /\ ok = FALSE /\ lines = <<>>
    /\ calls = <<>>
    /\ tr = NoRead
    /\ ret = NoCall
    /\ lastWrite = NoCall
    /\ NoHandles

\* reader.read(buffer)
ReadChunk ==
    /\ Len(calls) < MaxReads
    /\ LET r == ReaderBase_readString(files, rd, line)
       IN  /\ rd' = r.file
           /\ line' = r.s
           /\ calls' = Append(calls, [from |-> rd.pos, to |-> r.file.pos,
                                      val |-> r.val, before |-> line,
                                      after |-> r.s])
    /\ UNCHANGED <<cpp_exceptions, files, nl, ok, lines, tr, ret, lastWrite,
                   handleVars>>

\* buffer = std::string(k, ' ')
BlankBuffer ==
    /\ line # Blank(Len(line))
    /\ line' = Blank(Len(line))
    /\ UNCHANGED <<cpp_exceptions, files, nl, rd, ok, lines, calls, tr, ret,
                   lastWrite, handleVars>>

NextChunks == ReadChunk \/ BlankBuffer

SpecChunks == InitChunks /\ [][NextChunks]_vars

\* C12: the read calls take the file's bytes in order, without gap or
\* repetition: each starts where the one before stopped, returns the smaller
\* of the buffer's length and the bytes left, puts exactly those bytes at
\* the start of the buffer and leaves the rest of the buffer as it was; once
\* a call came back short every later call returns 0; and "hello world"
\* read 3 at a time returns 3, 3, 3, 2, then 0.
C12_SequentialReads ==
    LET content == files[ChunkPath].data
        k == Len(line)
    IN  /\ \A i \in 1..Len(calls) :
              LET c == calls[i]
              IN  /\ c.from = IF i = 1 THEN 0 ELSE calls[i - 1].to
                  /\ c.val = Min(k, Len(content) - c.from)
                  /\ c.to = c.from + c.val
                  /\ Len(c.after) = k
                  /\ SubSeq(c.after, 1, c.val)
                       = SubSeq(content, c.from + 1, c.from + c.val)
                  /\ SubSeq(c.after, c.val + 1, k) = SubSeq(c.before, c.val + 1, k)
                  /\ \A j \in 1..(i - 1) : calls[j].val < k => c.val = 0
        /\ (content = HelloWorld /\ k = 3 /\ Len(calls) >= 5) =>
              [i \in 1..5 |-> calls[i].val] = <<3, 3, 3, 2, 0>>

\* C12's case: "hello world" has been read 3 bytes at a time to its end and
\* once more, the short chunk into a buffer that held blanks.
C12_Witness ==
    /\ files[ChunkPath].data = HelloWorld /\ Len(line) = 3
    /\ Len(calls) = 5
    /\ calls[4].val = 2 /\ calls[4].after = <<"l", "d", " ">>
    /\ calls[5].val = 0

---------------------------------------------------------------------------
(* Appending: the first half of the test "write" *)

\* Most appends made to one file
MaxAppends == 2

\* tfile::Appender(filename).write(data), the fwrite transferring n bytes,
\* then ~Appender closes the file; appender(filename).write(data) of
\* src/tfile.h opens with the same "a"
Appender_write(fs, path, data, n) ==
    LET o == Fopen(fs, path, modeString("append"), FALSE)
    IN  IF o.ok
        THEN [fs |-> FwriteFs(o.fs, o.file, data, n), val |-> n, thrown |-> "",
              file |-> Fclose(FwriteFile(o.fs, o.file, data, n))]
        ELSE [fs |-> fs, val |-> 0, file |-> o.file,
              thrown |-> IF cpp_exceptions THEN "runtime_error" ELSE "null FILE*"]

AppendPath == "/tmp/tfile.file1.txt"

\* What the test's Writer has written before the Appender is opened
HelloBlank == <<"h", "e", "l", "l", "o", " ">>

World == <<"w", "o", "r", "l", "d">>

AppendData == {<<>>, <<"b">>, <<"b", "c">>, World}

\* The file is missing, or empty, or holds what a Writer wrote
InitAppend ==
    /\ cpp_exceptions \in BOOLEAN
    /\ files \in [{AppendPath} ->
                    {NoData, Data(<<>>), Data(<<"a">>), Data(HelloBlank)}]
    /\ ret = NoCall
    /\ lastWrite = NoCall
    /\ tr = NoRead
    /\ nl = "lf" /\ rd = NoFILE /\ line = <<>> /\ ok = FALSE
    /\ lines = <<>> /\ calls = <<>>
    /\ NoHandles

\* The appends made so far
Appends == IF lastWrite.op = "append" THEN lastWrite.count ELSE 0

\* tfile::Appender(path).write(data); fwrite may transfer fewer bytes
AppendWrite(path, data) ==
    /\ Appends < MaxAppends
    /\ \E n \in 0..Len(data) :
          LET a == Appender_write(files, path, data, n)
          IN  /\ files' = a.fs
              /\ ret' = [op |-> "append", path |-> path, arg |-> data,
                         val |-> a.val, thrown |-> a.thrown,
                         before |-> files[path].data,
                         closed |-> a.file.st = "closed",
                         count |-> Appends + 1]
              /\ lastWrite' = ret'
    /\ UNCHANGED <<cpp_exceptions, lineVars, tr, handleVars>>

NextAppend ==
    \/ \E data \in AppendData : AppendWrite(AppendPath, data)
    \/ Read(AppendPath)

SpecAppend == InitAppend /\ [][NextAppend]_vars

\* C13: after an Appender opened on a file that held C has written B, the
\* file holds C followed by the bytes of B that were written - all of B
\* when write returned length(B) - and a full read returns that; nothing of
\* C is lost; "world" onto "hello " gives "hello world".
C13_AppendKeepsContent ==
    lastWrite.op = "append" =>
        LET C == lastWrite.before
            B == lastWrite.arg
            now == files[lastWrite.path].data
        IN  /\ lastWrite.thrown = ""
            /\ now = C \o SubSeq(B, 1, lastWrite.val)
            /\ lastWrite.val = Len(B) => now = C \o B
            /\ (C = HelloBlank /\ B = World /\ lastWrite.val = Len(B))
                  => now = HelloWorld
            /\ ret.op = "read" => (ret.thrown = "" /\ ret.val = now)

\* C13's case: "world" has been appended to a file that held "hello " and
\* the file read back in full.
C13_Witness ==
    /\ lastWrite.op = "append"
    /\ lastWrite.before = HelloBlank /\ lastWrite.arg = World
    /\ lastWrite.val = 5
    /\ ret.op = "read" /\ ret.val = HelloWorld

---------------------------------------------------------------------------
(* The line reader and a "\r" that follows a pending "\r" *)

\* C15 as written: under the Windows policy a byte read while a "\r" is
\* pending is treated as if none were pending, so that every "\r\n" pair
\* that was read ends the line of the call that read it, and "a\r\r\nb"
\* gives the lines "a\r" and "b".
C15_EveryCrLfEndsLine ==
    nl = "cr_lf" =>
        /\ \A p \in 2..rd.pos :
              (LineInput[p - 1] = CR /\ LineInput[p] = LF)
              => \E i \in 1..Len(calls) :
                    calls[i].ok /\ calls[i].to = p /\ ~calls[i].eof
        /\ (LineInput = CrCrLfInput /\ ~ok)
              => lines = << <<"a", CR>>, <<"b">> >>

=============================================================================
